---- MODULE Spec2Model ----
(***************************************************************************)
(* Chain-index store (src/src/txdb-leveldb.cpp) and spork manager           *)
(* (src/src/spork.h) of the Neutron node.                                   *)
(*                                                                          *)
(* The subsystems share the module, each with its own specification:       *)
(*   SpecTxn    the CTxDB handle: open, batched transaction, read, close    *)
(*   SpecLoad   CTxDB::LoadBlockIndex over stores written by the node       *)
(*   SpecTrust  CTxDB::LoadBlockIndex phases 1-2 over arbitrary records     *)
(*   SpecSpork  CSporkManager::ProcessSpork / UpdateSpork                   *)
(* A specification leaves the variables of the other subsystems untouched.  *)
(***************************************************************************)
EXTENDS Integers, Sequences, FiniteSets, TLC

VARIABLES
    \* ---- CTxDB handle and the LevelDB store behind it
    dbExists,        \* the txleveldb directory holds a database
    diskVersion,     \* value of the "version" key: "none", "old", "cur", "new"
    kv,              \* the store's records, key -> value or NoValue
    pdb,             \* CTxDB::pdb / global txdb is non-null
    fReadOnly,       \* CTxDB::fReadOnly
    activeBatch,     \* CTxDB::activeBatch is non-null
    batchLog,        \* contents of *activeBatch, in insertion order
    blockIndexFreed, \* Close() has deleted the nodes of mapBlockIndex
    aborted,         \* an assert() failed: the process is gone
    preStore,        \* history: kv when the open txn began, empty when none is open
    dbEvent,         \* history: the last operation and what it returned
    blockFiles       \* numbers n of the blk<n>.dat files in the data directory

VARIABLES
    \* ---- spork manager
    mapSporks,       \* global mapSporks: content hash -> message
    mapSporksActive, \* CSporkManager::mapSporksActive: spork id -> stored message
    strMainPubKey,   \* CSporkManager::strMainPubKey
    strTestPubKey,   \* CSporkManager::strTestPubKey
    sporkAccepted,   \* history: per id, the time_signed of each accepted message
    sporkEvent       \* history: the last message handled and what became of it

VARIABLES
    \* ---- CTxDB::LoadBlockIndex
    disk,             \* what the store holds: block-index records, hashBestChain,
                      \* hashSyncCheckpoint
    fTestNet,         \* global fTestNet
    nCheckLevel,      \* -checklevel
    checkblocks,      \* -checkblocks
    fRequestShutdown, \* global fRequestShutdown
    pc,               \* where LoadBlockIndex stands
    results,          \* history: what each call of LoadBlockIndex returned
    iter,             \* the iterator: hashes of the records not yet streamed
    mapBlockIndex,    \* global mapBlockIndex: block hash -> node
    setStakeSeen,     \* global setStakeSeen (a record is named by its hash)
    vSortedByHeight,  \* the nodes phase 2 has not yet visited
    pindexBest,       \* globals pindexBest, nBestHeight, nBestChainTrust
    nBestHeight,
    nBestChainTrust,
    nCheckDepth,      \* the local nCheckDepth after clamping
    pindex,           \* the walk's cursor
    pindexFork,       \* the fork pointer
    mapBlockPos,      \* positions of the blocks the walk has visited
    nTx,              \* transactions of the current block already checked
    nOutput,          \* entries of the current txindex.vSpent already checked
    nIn,              \* inputs of the current transaction already checked
    flagged,          \* history: blocks some tier flagged
    visited,          \* history: blocks the walk visited, in order
    setBestChainCalls,\* history: arguments of the SetBestChain calls
    tipSnapshot,      \* history: the three globals as phase 3 left them
    loadEvent         \* history: what the last step of the walk observed

txnVars == <<dbExists, diskVersion, kv, pdb, fReadOnly, activeBatch, batchLog,
             blockIndexFreed, aborted, preStore, dbEvent, blockFiles>>

sporkVars == <<mapSporks, mapSporksActive, strMainPubKey, strTestPubKey,
               sporkAccepted, sporkEvent>>

loadInputs == <<disk, fTestNet, nCheckLevel, checkblocks>>

treeVars == <<mapBlockIndex, setStakeSeen>>

bestVars == <<pindexBest, nBestHeight, nBestChainTrust, tipSnapshot>>

walkLocals == <<nCheckDepth, pindex, pindexFork, mapBlockPos, nTx, nOutput,
                nIn, flagged, visited>>
walkVars == <<walkLocals, loadEvent>>

loadVars == <<loadInputs, fRequestShutdown, pc, results, iter, treeVars,
              vSortedByHeight, bestVars, walkVars, setBestChainCalls>>

vars == <<txnVars, sporkVars, loadVars>>

\* what an operation of one subsystem leaves alone
TxnFrame == UNCHANGED <<sporkVars, loadVars>>
SporkFrame == UNCHANGED <<txnVars, loadVars>>
LoadFrame == UNCHANGED <<txnVars, sporkVars>>

----------------------------------------------------------------------------
\* Bounds of the transaction layer

\* longest pending log explored
MaxBatch == 3

Keys == {"k1", "k2"}
Values == {"v1", "v2"}
NoValue == "absent"

Stores == [Keys -> Values \cup {NoValue}]
EmptyStore == [k \in Keys |-> NoValue]

NoEvent == [op |-> "none"]

----------------------------------------------------------------------------
\* leveldb::WriteBatch and leveldb::DB::Write (library contract: a batch is
\* applied atomically, in the order its operations were added)

BatchPut(k, v) == [op |-> "put", key |-> k, value |-> v]
BatchDelete(k) == [op |-> "del", key |-> k, value |-> NoValue]

ApplyOp(s, o) == [s EXCEPT ![o.key] = IF o.op = "put" THEN o.value ELSE NoValue]

RECURSIVE ApplyBatch(_, _)
ApplyBatch(s, log) ==
    IF log = <<>> THEN s
    ELSE ApplyBatch(ApplyOp(s, Head(log)), Tail(log))

----------------------------------------------------------------------------
\* CBatchScanner: the handler WriteBatch::Iterate calls for each operation

ScannerInit == [foundEntry |-> FALSE, deleted |-> FALSE, foundValue |-> NoValue]

\* a scanner that keeps the first matching put and ignores the later ones
CBatchScanner_Put_FirstWins(sc, needle, key, value) ==
    IF key = needle /\ ~sc.foundEntry
    THEN [foundEntry |-> TRUE, deleted |-> FALSE, foundValue |-> value]
    ELSE sc

CBatchScanner_Put(sc, needle, key, value) ==
    IF key = needle
    THEN [foundEntry |-> TRUE, deleted |-> FALSE, foundValue |-> value]
    ELSE sc

CBatchScanner_Delete(sc, needle, key) ==
    IF key = needle
    THEN [sc EXCEPT !.foundEntry = TRUE, !.deleted = TRUE]
    ELSE sc

RECURSIVE Iterate(_, _, _)
Iterate(log, sc, needle) ==
    IF log = <<>> THEN sc
    ELSE LET o == Head(log)
             nxt == IF o.op = "put"
                    THEN CBatchScanner_Put(sc, needle, o.key, o.value)
                    ELSE CBatchScanner_Delete(sc, needle, o.key)
         IN Iterate(Tail(log), nxt, needle)

\* CTxDB::ScanBatch: *deleted = false, then the scan; the result carries the
\* return value (foundEntry) and the two out-parameters
ScanBatch(log, key) == Iterate(log, ScannerInit, key)

----------------------------------------------------------------------------
\* CTxDB operations

\* block files a node that has a store has written
MaxBlockFiles == 2

TxnInit ==
    /\ dbExists \in BOOLEAN
    /\ diskVersion \in {"none", "old", "cur", "new"}
    /\ kv \in Stores
    /\ dbExists = FALSE => (diskVersion = "none" /\ kv = EmptyStore)
    /\ blockFiles = IF dbExists THEN 1..MaxBlockFiles ELSE {}
    /\ pdb = FALSE
    /\ fReadOnly = FALSE
    /\ activeBatch = FALSE
    /\ batchLog = <<>>
    /\ blockIndexFreed = FALSE
    /\ aborted = FALSE
    /\ preStore = EmptyStore
    /\ dbEvent = NoEvent

TxnIdle ==
    /\ dbExists = TRUE
    /\ diskVersion = "cur"
    /\ kv = EmptyStore
    /\ blockFiles = {}
    /\ pdb = FALSE
    /\ fReadOnly = FALSE
    /\ activeBatch = FALSE
    /\ batchLog = <<>>
    /\ blockIndexFreed = FALSE
    /\ aborted = FALSE
    /\ preStore = EmptyStore
    /\ dbEvent = NoEvent

Modes == {"r", "r+", "cr+"}
ModeCreates(m) == m = "cr+"
ModeReadOnly(m) == m = "r"

\* init_blockindex(options, true): blk0001.dat, blk0002.dat, ... are removed
\* up to the first number that has no file
RECURSIVE RemoveBlockFiles(_, _)
RemoveBlockFiles(files, nFile) ==
    IF nFile \notin files THEN files
    ELSE RemoveBlockFiles(files \ {nFile}, nFile + 1)

\* nVersion < DATABASE_VERSION
IsOldVersion(version) == version = "old"

\* CTxDB::CTxDB(pszMode) with the global txdb unset: init_blockindex opens the
\* store (DB::Open fails, and the constructor throws, when there is no store
\* and create_if_missing is off).  An older "version" removes the directory and
\* the block files and opens again with the same options: a new store when the
\* mode creates, else the throw.  A missing "version" is written when the mode
\* creates.
Open(mode) ==
    /\ ~aborted
    /\ TxnFrame
    /\ ~pdb
    /\ activeBatch' = FALSE
    /\ batchLog' = <<>>
    /\ fReadOnly' = ModeReadOnly(mode)
    /\ LET ev(ok, wiped) == [op |-> "open", ok |-> ok, wiped |-> wiped,
                             mode |-> mode, version |-> diskVersion,
                             pre |-> kv, files |-> blockFiles]
       IN  IF ~dbExists /\ ~ModeCreates(mode)
           THEN /\ dbEvent' = ev(FALSE, FALSE)
                /\ UNCHANGED <<dbExists, diskVersion, kv, pdb, blockFiles>>
           ELSE IF IsOldVersion(diskVersion)
           THEN /\ blockFiles' = RemoveBlockFiles(blockFiles, 1)
                /\ kv' = EmptyStore
                /\ pdb' = ModeCreates(mode)
                /\ dbExists' = ModeCreates(mode)
                /\ diskVersion' = IF ModeCreates(mode) THEN "cur" ELSE "none"
                /\ dbEvent' = ev(ModeCreates(mode), TRUE)
           ELSE /\ pdb' = TRUE
                /\ dbExists' = TRUE
                /\ dbEvent' = ev(TRUE, FALSE)
                /\ diskVersion' = IF diskVersion = "none" /\ ModeCreates(mode)
                                  THEN "cur" ELSE diskVersion
                /\ UNCHANGED <<kv, blockFiles>>
    /\ UNCHANGED <<blockIndexFreed, aborted, preStore>>

\* CTxDB::CTxDB(pszMode) when another handle already opened the store
Reopen(mode) ==
    /\ ~aborted
    /\ TxnFrame
    /\ UNCHANGED blockFiles
    /\ pdb
    /\ ~activeBatch
    /\ fReadOnly' = ModeReadOnly(mode)
    /\ dbEvent' = [op |-> "reopen", ok |-> TRUE]
    /\ UNCHANGED <<dbExists, diskVersion, kv, pdb, activeBatch, batchLog,
                   blockIndexFreed, aborted, preStore>>

Close ==
    /\ ~aborted
    /\ TxnFrame
    /\ UNCHANGED blockFiles
    /\ pdb
    /\ blockIndexFreed' = TRUE
    /\ pdb' = FALSE
    /\ activeBatch' = FALSE
    /\ batchLog' = <<>>
    /\ dbEvent' = [op |-> "close", hadBatch |-> activeBatch, pre |-> preStore]
    /\ UNCHANGED <<dbExists, diskVersion, kv, fReadOnly, aborted>>
    /\ preStore' = EmptyStore

\* a second begin replaces the pending batch
TxnBegin_Replace ==
    /\ ~aborted
    /\ TxnFrame
    /\ UNCHANGED blockFiles
    /\ pdb
    /\ activeBatch' = TRUE
    /\ batchLog' = <<>>
    /\ preStore' = kv
    /\ dbEvent' = [op |-> "begin"]
    /\ UNCHANGED <<dbExists, diskVersion, kv, pdb, fReadOnly, blockIndexFreed,
                   aborted>>

TxnBegin ==
    /\ ~aborted
    /\ TxnFrame
    /\ UNCHANGED blockFiles
    /\ pdb
    /\ IF activeBatch
       THEN /\ aborted' = TRUE
            /\ dbEvent' = [op |-> "assert", in |-> "TxnBegin"]
            /\ UNCHANGED <<activeBatch, batchLog, preStore>>
       ELSE /\ activeBatch' = TRUE
            /\ batchLog' = <<>>
            /\ preStore' = kv
            /\ dbEvent' = [op |-> "begin"]
            /\ UNCHANGED aborted
    /\ UNCHANGED <<dbExists, diskVersion, kv, pdb, fReadOnly, blockIndexFreed>>

\* a commit whose failed write still lands the first pending operation
TxnCommit_PartialOnFailure ==
    /\ ~aborted
    /\ TxnFrame
    /\ UNCHANGED blockFiles
    /\ pdb
    /\ IF ~activeBatch
       THEN /\ aborted' = TRUE
            /\ dbEvent' = [op |-> "assert", in |-> "TxnCommit"]
            /\ UNCHANGED <<kv, activeBatch, batchLog>>
       ELSE \E ok \in BOOLEAN :
            /\ kv' = IF ok THEN ApplyBatch(kv, batchLog)
                     ELSE IF batchLog = <<>> THEN kv
                     ELSE ApplyOp(kv, Head(batchLog))
            /\ activeBatch' = FALSE
            /\ batchLog' = <<>>
            /\ dbEvent' = [op |-> "commit", ok |-> ok, pre |-> preStore,
                           log |-> batchLog]
            /\ UNCHANGED aborted
    /\ preStore' = IF activeBatch THEN EmptyStore ELSE preStore
    /\ UNCHANGED <<dbExists, diskVersion, pdb, fReadOnly, blockIndexFreed>>

\* a commit whose failed write keeps the pending batch for the next txn
TxnCommit_KeepLogOnFailure ==
    /\ ~aborted
    /\ TxnFrame
    /\ UNCHANGED blockFiles
    /\ pdb
    /\ IF ~activeBatch
       THEN /\ aborted' = TRUE
            /\ dbEvent' = [op |-> "assert", in |-> "TxnCommit"]
            /\ UNCHANGED <<kv, activeBatch, batchLog>>
       ELSE \E ok \in BOOLEAN :
            /\ kv' = IF ok THEN ApplyBatch(kv, batchLog) ELSE kv
            /\ activeBatch' = FALSE
            /\ batchLog' = IF ok THEN <<>> ELSE batchLog
            /\ dbEvent' = [op |-> "commit", ok |-> ok, pre |-> preStore,
                           log |-> batchLog]
            /\ UNCHANGED aborted
    /\ preStore' = IF activeBatch THEN EmptyStore ELSE preStore
    /\ UNCHANGED <<dbExists, diskVersion, pdb, fReadOnly, blockIndexFreed>>

TxnCommit ==
    /\ ~aborted
    /\ TxnFrame
    /\ UNCHANGED blockFiles
    /\ pdb
    /\ IF ~activeBatch
       THEN /\ aborted' = TRUE
            /\ dbEvent' = [op |-> "assert", in |-> "TxnCommit"]
            /\ UNCHANGED <<kv, activeBatch, batchLog>>
       ELSE \E ok \in BOOLEAN :
            /\ kv' = IF ok THEN ApplyBatch(kv, batchLog) ELSE kv
            /\ activeBatch' = FALSE
            /\ batchLog' = <<>>
            /\ dbEvent' = [op |-> "commit", ok |-> ok, pre |-> preStore,
                           log |-> batchLog]
            /\ UNCHANGED aborted
    /\ preStore' = IF activeBatch THEN EmptyStore ELSE preStore
    /\ UNCHANGED <<dbExists, diskVersion, pdb, fReadOnly, blockIndexFreed>>

\* CTxDB::TxnAbort: the pending batch is dropped
TxnAbort ==
    /\ ~aborted
    /\ TxnFrame
    /\ UNCHANGED blockFiles
    /\ pdb
    /\ activeBatch
    /\ activeBatch' = FALSE
    /\ batchLog' = <<>>
    /\ dbEvent' = [op |-> "abort", pre |-> preStore]
    /\ preStore' = EmptyStore
    /\ UNCHANGED <<dbExists, diskVersion, kv, pdb, fReadOnly, blockIndexFreed,
                   aborted>>

\* CTxDB::Write / CTxDB::Erase: into the pending batch when one is open,
\* else straight to the store
Submit(o) ==
    /\ ~aborted
    /\ TxnFrame
    /\ UNCHANGED blockFiles
    /\ pdb
    /\ ~fReadOnly
    /\ IF activeBatch
       THEN /\ Len(batchLog) < MaxBatch
            /\ batchLog' = Append(batchLog, o)
            /\ kv' = kv
       ELSE /\ kv' = ApplyOp(kv, o)
            /\ batchLog' = batchLog
    /\ dbEvent' = [op |-> "write", batched |-> activeBatch]
    /\ UNCHANGED <<dbExists, diskVersion, pdb, fReadOnly, activeBatch,
                   blockIndexFreed, aborted, preStore>>

Write(k, v) == Submit(BatchPut(k, v))

Erase(k) == Submit(BatchDelete(k))

\* CTxDB::Read: the pending batch first, the store when the batch is silent
ReadResult(k) ==
    LET sc == ScanBatch(batchLog, k)
    IN IF activeBatch /\ sc.foundEntry
       THEN IF sc.deleted
            THEN [found |-> FALSE, value |-> NoValue, from |-> "batch"]
            ELSE [found |-> TRUE, value |-> sc.foundValue, from |-> "batch"]
       ELSE [found |-> kv[k] # NoValue, value |-> kv[k], from |-> "store"]

Read(k) ==
    /\ ~aborted
    /\ TxnFrame
    /\ UNCHANGED blockFiles
    /\ pdb
    /\ dbEvent' = [op |-> "read", key |-> k, res |-> ReadResult(k)]
    /\ UNCHANGED <<dbExists, diskVersion, kv, pdb, fReadOnly, activeBatch, batchLog,
                   blockIndexFreed, aborted, preStore>>

\* CTxDB::ScanBatch called on the handle: the assert, then the scan
ScanBatchCall(k) ==
    /\ ~aborted
    /\ TxnFrame
    /\ UNCHANGED blockFiles
    /\ pdb
    /\ IF ~activeBatch
       THEN /\ aborted' = TRUE
            /\ dbEvent' = [op |-> "assert", in |-> "ScanBatch"]
       ELSE /\ dbEvent' = [op |-> "scan", key |-> k, res |-> ScanBatch(batchLog, k)]
            /\ UNCHANGED aborted
    /\ UNCHANGED <<dbExists, diskVersion, kv, pdb, fReadOnly, activeBatch, batchLog,
                   blockIndexFreed, preStore>>

TxnNext ==
    \/ \E m \in Modes : Open(m)
    \/ \E m \in Modes : Reopen(m)
    \/ Close
    \/ TxnBegin
    \/ TxnCommit
    \/ TxnAbort
    \/ \E k \in Keys, v \in Values : Write(k, v)
    \/ \E k \in Keys : Erase(k)
    \/ \E k \in Keys : Read(k)
    \/ \E k \in Keys : ScanBatchCall(k)

----------------------------------------------------------------------------
\* Spork manager

SPORK_4_PAYMENT_ENFORCEMENT_DOS_VALUE == 10004
SPORK_8_PROTOCOL_V210_ENFORCEMENT == 10008
SPORK_9_PROTOCOL_V3_ENFORCEMENT == 10009
\* the penalty of the code this manager descends from
DosValueDefault_Hundred == 10 * 10

SPORK_4_PAYMENT_ENFORCEMENT_DOS_VALUE_DEFAULT == 10
SPORK_8_PROTOCOL_V210_ENFORCEMENT_DEFAULT == 1544940000
SPORK_9_PROTOCOL_V3_ENFORCEMENT_DEFAULT == 1562561521

\* most messages accepted in one session
MaxAccepts == 2

SporkIds == {SPORK_4_PAYMENT_ENFORCEMENT_DOS_VALUE, SPORK_8_PROTOCOL_V210_ENFORCEMENT}
\* every id the manager keeps a history for
AllSporkIds == SporkIds \cup {SPORK_9_PROTOCOL_V3_ENFORCEMENT}
SporkValues == {20, 30}

\* An int64_t is kept as two words: the low 31 bits, and the bits above them
\* as a signed number; the value is high * 2^31 + low.
SporkHighWords == {0, 1}
SporkTimes == {1, 2}
Peers == {"p1"}

\* contents of the alignment padding between nSporkID and nValue
Pads == {0, 1}

\* A CSporkMessage as it arrives: sigOk says whether vchSig is a signature of
\* the master key over the message.
SporkMessages ==
    [nSporkID : SporkIds, nValue : SporkValues, nValueHigh : {0},
     nTimeSigned : SporkTimes, sigOk : BOOLEAN]

\* messages for spork 9 whose value may lie above 2^31 - 1
WideSporkMessages ==
    [nSporkID : {SPORK_9_PROTOCOL_V3_ENFORCEMENT},
     nValue : {20}, nValueHigh : SporkHighWords,
     nTimeSigned : SporkTimes, sigOk : BOOLEAN]

\* CSporkMessage::GetHash of an object whose padding bytes hold pad: the hash
\* runs over the object's bytes from nSporkID to the end of nTimeSigned, which
\* take in the padding that aligns nValue.
GetHash(m, pad) == <<m.nSporkID, pad, m.nValueHigh, m.nValue, m.nTimeSigned>>

\* the object a map keeps: the message's members and the copy's own padding
Stored(m, pad) ==
    [nSporkID |-> m.nSporkID, nValue |-> m.nValue, nValueHigh |-> m.nValueHigh,
     nTimeSigned |-> m.nTimeSigned, sigOk |-> m.sigOk, pad |-> pad]

Members(st) ==
    [nSporkID |-> st.nSporkID, nValue |-> st.nValue, nValueHigh |-> st.nValueHigh,
     nTimeSigned |-> st.nTimeSigned, sigOk |-> st.sigOk]

MapPut(f, k, v) == [x \in DOMAIN f \cup {k} |-> IF x = k THEN v ELSE f[x]]

EmptyMap == [x \in {} |-> 0]

SporkDefault(id) ==
    IF id = SPORK_4_PAYMENT_ENFORCEMENT_DOS_VALUE
    THEN SPORK_4_PAYMENT_ENFORCEMENT_DOS_VALUE_DEFAULT
    ELSE IF id = SPORK_9_PROTOCOL_V3_ENFORCEMENT
    THEN SPORK_9_PROTOCOL_V3_ENFORCEMENT_DEFAULT
    ELSE SPORK_8_PROTOCOL_V210_ENFORCEMENT_DEFAULT

\* CSporkManager::GetSporkValue: the active value, else the compiled-in default
GetSporkValue(id) ==
    IF id \in DOMAIN mapSporksActive THEN mapSporksActive[id].nValue
    ELSE SporkDefault(id)

\* the high word of the int64_t GetSporkValue returns; the defaults of the
\* two sporks lie below 2^31
GetSporkValueHigh(id) ==
    IF id \in DOMAIN mapSporksActive THEN mapSporksActive[id].nValueHigh
    ELSE 0

\* int64_t to int, the parameter type of ExecuteSpork(int nSporkID, int
\* nValue): the low 32 bits are kept, bit 31 becomes the sign
ToInt(high, low) ==
    IF high % 2 = 0 THEN low ELSE (low - 2147483647) - 1

\* int to int64_t: the sign is extended
ToInt64(n) ==
    IF n < 0 THEN [high |-> 0 - 1, low |-> (n + 2147483647) + 1]
    ELSE [high |-> 0, low |-> n]

\* the clock: just before and just after the default activation of spork 9
SporkClock == {SPORK_9_PROTOCOL_V3_ENFORCEMENT_DEFAULT - 1,
               SPORK_9_PROTOCOL_V3_ENFORCEMENT_DEFAULT + 1}

\* a 64-bit value, as its two words, lies before now
ValueBefore(high, low, now) == high < 0 \/ (high = 0 /\ low < now)

\* CSporkManager::IsSporkActive at the time now
IsSporkActive(id, now) ==
    ValueBefore(GetSporkValueHigh(id), GetSporkValue(id), now)

\* the keys of the two branches of the constructor, by their first bytes
V3PubKey == "042b98d4"
LegacyMainPubKey == "04cc53cd"
LegacyTestPubKey == "042E0E34"

\* the constructor's choice: <<strMainPubKey, strTestPubKey>>
SelectPubKeys(active) ==
    IF active THEN <<V3PubKey, V3PubKey>>
    ELSE <<LegacyMainPubKey, LegacyTestPubKey>>

\* keys chosen again from the state of spork 9 whenever a message is accepted
PubKeysAfterAccept_Reselect(keys, active) == SelectPubKeys(active)

\* the keys after a message was accepted: no path but the constructor
\* assigns them
PubKeysAfterAccept(keys, active) == keys

\* the manager as its constructor leaves it, built at one of the times given
SporkInitAt(times) ==
    /\ mapSporks = EmptyMap
    /\ mapSporksActive = EmptyMap
    /\ \E now \in times :
          LET keys == SelectPubKeys(SPORK_9_PROTOCOL_V3_ENFORCEMENT_DEFAULT < now)
          IN  strMainPubKey = keys[1] /\ strTestPubKey = keys[2]
    /\ sporkAccepted = [id \in AllSporkIds |-> <<>>]
    /\ sporkEvent = [kind |-> "none"]

SporkInit == SporkInitAt({SPORK_9_PROTOCOL_V3_ENFORCEMENT_DEFAULT + 1})

WideSporkInit == SporkInitAt(SporkClock)

SporkIdle == SporkInit

\* what the freshness check of the ingress path saw
ActiveBefore(id) ==
    IF id \in DOMAIN mapSporksActive
    THEN [had |-> TRUE, nTimeSigned |-> mapSporksActive[id].nTimeSigned,
          nValue |-> mapSporksActive[id].nValue]
    ELSE [had |-> FALSE, nTimeSigned |-> 0, nValue |-> 0]

\* the freshness check with the comparison off by one: an equal time passes
IsStale_AllowEqual(m) ==
    /\ m.nSporkID \in DOMAIN mapSporksActive
    /\ mapSporksActive[m.nSporkID].nTimeSigned > m.nTimeSigned

\* step 3 of the ingress path: an active entry at least as new as the message
IsStale(m) ==
    /\ m.nSporkID \in DOMAIN mapSporksActive
    /\ mapSporksActive[m.nSporkID].nTimeSigned >= m.nTimeSigned

NumAccepted == Len(sporkAccepted[SPORK_4_PAYMENT_ENFORCEMENT_DOS_VALUE])
               + Len(sporkAccepted[SPORK_8_PROTOCOL_V210_ENFORCEMENT])
               + Len(sporkAccepted[SPORK_9_PROTOCOL_V3_ENFORCEMENT])

\* the ingress path with the signature verified before the de-dup and the
\* freshness checks
Ingress_SignatureFirst(from, m, pad, ibd) ==
    LET hash == GetHash(m, pad)
        drop(kind, weight) ==
            /\ sporkEvent' = [kind |-> kind, from |-> from, msg |-> m,
                              before |-> ActiveBefore(m.nSporkID),
                              weight |-> weight, relayed |-> FALSE,
                              executed |-> FALSE]
            /\ UNCHANGED <<mapSporks, mapSporksActive, sporkAccepted,
                           strMainPubKey, strTestPubKey>>
    IN  IF ibd THEN drop("ibd", 0)
        ELSE IF ~m.sigOk
        THEN drop("badsig", GetSporkValue(SPORK_4_PAYMENT_ENFORCEMENT_DOS_VALUE))
        ELSE IF hash \in DOMAIN mapSporks THEN drop("duplicate", 0)
        ELSE IF IsStale(m) THEN drop("stale", 0)
        ELSE /\ NumAccepted < MaxAccepts
             /\ mapSporks' = MapPut(mapSporks, hash, m)
             /\ \E keptPad \in Pads :
                    mapSporksActive' =
                        MapPut(mapSporksActive, m.nSporkID, Stored(m, keptPad))
             /\ sporkAccepted' =
                    [sporkAccepted EXCEPT ![m.nSporkID] = Append(@, m.nTimeSigned)]
             /\ \E now \in SporkClock :
                    LET keys == PubKeysAfterAccept(
                            <<strMainPubKey, strTestPubKey>>,
                            IF m.nSporkID = SPORK_9_PROTOCOL_V3_ENFORCEMENT
                            THEN ValueBefore(m.nValueHigh, m.nValue, now)
                            ELSE IsSporkActive(SPORK_9_PROTOCOL_V3_ENFORCEMENT, now))
                    IN  strMainPubKey' = keys[1] /\ strTestPubKey' = keys[2]
             /\ sporkEvent' = [kind |-> "accept", from |-> from, msg |-> m,
                               before |-> ActiveBefore(m.nSporkID),
                               weight |-> 0, relayed |-> TRUE, executed |-> TRUE,
                               execId |-> m.nSporkID,
                               execValue |-> ToInt(m.nValueHigh, m.nValue)]

\* The ingress path for one "spork" message from peer: ibd is the answer of
\* IsInitialBlockDownload, pad the padding of the received object; the copy
\* mapSporksActive keeps has padding of its own.
Ingress(from, m, pad, ibd) ==
    LET hash == GetHash(m, pad)
        drop(kind, weight) ==
            /\ sporkEvent' = [kind |-> kind, from |-> from, msg |-> m,
                              before |-> ActiveBefore(m.nSporkID),
                              weight |-> weight, relayed |-> FALSE,
                              executed |-> FALSE]
            /\ UNCHANGED <<mapSporks, mapSporksActive, sporkAccepted,
                           strMainPubKey, strTestPubKey>>
    IN  IF ibd THEN drop("ibd", 0)
        ELSE IF hash \in DOMAIN mapSporks THEN drop("duplicate", 0)
        ELSE IF IsStale(m) THEN drop("stale", 0)
        ELSE IF ~m.sigOk
        THEN drop("badsig", GetSporkValue(SPORK_4_PAYMENT_ENFORCEMENT_DOS_VALUE))
        ELSE /\ NumAccepted < MaxAccepts
             /\ mapSporks' = MapPut(mapSporks, hash, m)
             /\ \E keptPad \in Pads :
                    mapSporksActive' =
                        MapPut(mapSporksActive, m.nSporkID, Stored(m, keptPad))
             /\ sporkAccepted' =
                    [sporkAccepted EXCEPT ![m.nSporkID] = Append(@, m.nTimeSigned)]
             /\ \E now \in SporkClock :
                    LET keys == PubKeysAfterAccept(
                            <<strMainPubKey, strTestPubKey>>,
                            IF m.nSporkID = SPORK_9_PROTOCOL_V3_ENFORCEMENT
                            THEN ValueBefore(m.nValueHigh, m.nValue, now)
                            ELSE IsSporkActive(SPORK_9_PROTOCOL_V3_ENFORCEMENT, now))
                    IN  strMainPubKey' = keys[1] /\ strTestPubKey' = keys[2]
             /\ sporkEvent' = [kind |-> "accept", from |-> from, msg |-> m,
                               before |-> ActiveBefore(m.nSporkID),
                               weight |-> 0, relayed |-> TRUE, executed |-> TRUE,
                               execId |-> m.nSporkID,
                               execValue |-> ToInt(m.nValueHigh, m.nValue)]

\* CSporkManager::ProcessSpork, command "spork"
ProcessSpork(from, m) ==
    /\ SporkFrame
    /\ \/ Ingress(from, m, 0, TRUE)
       \/ \E pad \in Pads : Ingress(from, m, pad, FALSE)

\* CSporkManager::ProcessSpork, command "getsporks": every active message goes
\* to the asking peer
ProcessGetSporks(from) ==
    /\ SporkFrame
    /\ sporkEvent' = [kind |-> "getsporks", from |-> from,
                      sent |-> {Members(mapSporksActive[id]) : id \in DOMAIN mapSporksActive}]
    /\ UNCHANGED <<mapSporks, mapSporksActive, sporkAccepted,
                   strMainPubKey, strTestPubKey>>

\* CSporkManager::UpdateSpork: a message signed now with the master key,
\* handed to the ingress path
UpdateSpork(id, value) ==
    /\ SporkFrame
    /\ \E now \in SporkTimes :
         LET m == [nSporkID |-> id, nValue |-> value.low, nValueHigh |-> value.high,
                   nTimeSigned |-> now, sigOk |-> TRUE]
         IN \/ Ingress("local", m, 0, TRUE)
            \/ \E pad \in Pads : Ingress("local", m, pad, FALSE)

SporkNext ==
    \/ \E p \in Peers, m \in SporkMessages : ProcessSpork(p, m)
    \/ \E p \in Peers : ProcessGetSporks(p)
    \/ \E id \in SporkIds, v \in SporkValues : UpdateSpork(id, ToInt64(v))

\* the manager fed with values on both sides of 2^31
WideSporkNext ==
    \/ \E p \in Peers, m \in WideSporkMessages : ProcessSpork(p, m)
    \/ \E p \in Peers : ProcessGetSporks(p)
    \/ \E h \in SporkHighWords :
           UpdateSpork(SPORK_9_PROTOCOL_V3_ENFORCEMENT, [high |-> h, low |-> 20])

----------------------------------------------------------------------------
\* CTxDB::LoadBlockIndex: data

\* uint256(0); a null CBlockIndex* is written the same way
ZeroHash == 0
hashGenesisBlock == 1
hashGenesisBlockTestNet == 2

\* records of the longest chain a stored index holds
MaxChain == 3

\* calls of LoadBlockIndex in one session
MaxCalls == 2

\* transactions of a block, entries of a vSpent, inputs of a transaction
MaxTx == 1
MaxOut == 1
MaxIn == 1

\* block hashes and largest stored height of the arbitrary record sets
NumHashes == 3
MaxHeight == 1

CheckLevels == 0..7
CheckDepths == {0, 1, 2}

\* A CDiskBlockIndex whose GetBlockHash() is hash.  nBits stands for the
\* header fields GetBlockTrust reads, nFlags for the proof-of-stake bit.
DiskBlockIndex(hash, prev, next, height, pos, bits, flags) ==
    [hash |-> hash, hashPrev |-> prev, hashNext |-> next, nHeight |-> height,
     nFile |-> 1, nBlockPos |-> pos, nBits |-> bits, nFlags |-> flags]

\* The chain the node itself writes: n records, heights 0..n-1, the genesis
\* block g first; the hashes fall with the height, so that the iterator meets
\* the genesis block, then the tip, then the blocks below it.
ChainHash(g, n, i) == IF i = 0 THEN g ELSE 2 + (n - i)

ChainRecord(g, n, i) ==
    DiskBlockIndex(ChainHash(g, n, i),
                   IF i = 0 THEN ZeroHash ELSE ChainHash(g, n, i - 1),
                   IF i = n - 1 THEN ZeroHash ELSE ChainHash(g, n, i + 1),
                   i, i + 1, i + 1, i % 2)

ChainIndex(g, n) ==
    [h \in {ChainHash(g, n, i) : i \in 0..(n - 1)} |->
        ChainRecord(g, n, CHOOSE i \in 0..(n - 1) : ChainHash(g, n, i) = h)]

\* a hash no record of the chain has
UnknownHash(n) == 3 + n

\* Stores the node can leave behind: a chain of 0..MaxChain blocks of either
\* network; hashBestChain absent, naming the tip or naming an unknown block;
\* hashSyncCheckpoint present or not.
ChainStores ==
    {[index |-> IF n = 0 THEN EmptyMap ELSE ChainIndex(g, n),
      hasBestChain |-> best # "absent",
      hashBestChain |-> IF best = "tip" /\ n > 0 THEN ChainHash(g, n, n - 1)
                        ELSE UnknownHash(n),
      hasSyncCheckpoint |-> sync] :
        g \in {hashGenesisBlock, hashGenesisBlockTestNet}, n \in 0..MaxChain,
        best \in {"absent", "tip", "unknown"}, sync \in BOOLEAN}

\* Arbitrary block-index records: any subset of NumHashes hashes, each record
\* with any other hash (or none) as hashPrev and any height up to MaxHeight.
TrustHashes == 1..NumHashes

ArbitraryIndexes ==
    UNION {[S -> [hash : {0}, hashPrev : {ZeroHash} \cup TrustHashes,
                  hashNext : {ZeroHash}, nHeight : 0..MaxHeight, nFile : {1},
                  nBlockPos : {1}, nBits : {0}, nFlags : {0}]]
           : S \in SUBSET TrustHashes}

ArbitraryStores ==
    {[index |-> [h \in DOMAIN f |-> [f[h] EXCEPT !.hash = h, !.nBits = h,
                                                 !.nBlockPos = h]],
      hasBestChain |-> FALSE, hashBestChain |-> ZeroHash,
      hasSyncCheckpoint |-> FALSE] :
        f \in {g \in ArbitraryIndexes : \A h \in DOMAIN g : g[h].hashPrev # h}}

\* CBlockIndex::CBlockIndex(): the node InsertBlockIndex creates
NewBlockIndex ==
    [pprev |-> ZeroHash, pnext |-> ZeroHash, nHeight |-> 0, nFile |-> 0,
     nBlockPos |-> 0, nBits |-> 0, nFlags |-> 0, nChainTrust |-> 0,
     nStakeModifierChecksum |-> 0]

\* an insert-or-get that gives the zero hash a node too
InsertBlockIndex_ZeroGetsNode(map, hash) ==
    IF hash \in DOMAIN map THEN map
    ELSE MapPut(map, hash, NewBlockIndex)

\* InsertBlockIndex(hash): the map after the call; the pointer returned is the
\* hash itself, null for the zero hash
InsertBlockIndex(map, hash) ==
    IF hash = ZeroHash \/ hash \in DOMAIN map THEN map
    ELSE MapPut(map, hash, NewBlockIndex)

\* CBlockIndex::GetBlockTrust: a function of the node's own header fields
GetBlockTrust(node) == node.nBits

\* GetStakeModifierChecksum: mixes the parent's checksum with the node's fields
GetStakeModifierChecksum(map, node) ==
    ((IF node.pprev # ZeroHash THEN map[node.pprev].nStakeModifierChecksum ELSE 0) * 2
        + node.nBits + node.nFlags) % 8

\* the iterator's current key: the smallest hash not yet streamed
IteratorKey(S) == CHOOSE h \in S : \A g \in S : h <= g

\* sort(vSortedByHeight) orders the pairs (nHeight, node address): the node
\* visited next has the lowest height left; the addresses decide among equals
\* any node next: the vector is walked unsorted
SortedNext_Unsorted(S) == S

SortedNext(S) ==
    {h \in S : \A g \in S : mapBlockIndex[h].nHeight <= mapBlockIndex[g].nHeight}

\* blockIndex.contains(hash)
BlockIndexContains(hash) == hash \in DOMAIN mapBlockIndex

NoLoadEvent == [step |-> "none"]

LoadInitWith(stores, nets, levels, depths) ==
    /\ disk \in stores
    /\ fTestNet \in nets
    /\ nCheckLevel \in levels
    /\ checkblocks \in depths
    /\ fRequestShutdown = FALSE
    /\ pc = "idle"
    /\ results = <<>>
    /\ iter = {}
    /\ mapBlockIndex = EmptyMap
    /\ setStakeSeen = {}
    /\ vSortedByHeight = {}
    /\ pindexBest = ZeroHash
    /\ nBestHeight = -1
    /\ nBestChainTrust = 0
    /\ tipSnapshot = <<ZeroHash, -1, 0>>
    /\ nCheckDepth = 0
    /\ pindex = ZeroHash
    /\ pindexFork = ZeroHash
    /\ mapBlockPos = EmptyMap
    /\ nTx = 0
    /\ nOutput = 0
    /\ nIn = 0
    /\ flagged = {}
    /\ visited = <<>>
    /\ setBestChainCalls = <<>>
    /\ loadEvent = NoLoadEvent

LoadInit == LoadInitWith(ChainStores, BOOLEAN, CheckLevels, CheckDepths)

TrustInit == LoadInitWith(ArbitraryStores, {FALSE}, {1}, {0})

LoadIdle ==
    LoadInitWith({[index |-> EmptyMap, hasBestChain |-> FALSE,
                   hashBestChain |-> ZeroHash, hasSyncCheckpoint |-> FALSE]},
                 {FALSE}, {1}, {0})

----------------------------------------------------------------------------
\* CTxDB::LoadBlockIndex: phases 1 to 3

\* return from LoadBlockIndex
Return(r) ==
    /\ results' = Append(results, r)
    /\ pc' = "idle"

\* an entry that streams the store again over a tree that holds nodes
LoadBlockIndex_AlwaysStreams ==
    /\ LoadFrame
    /\ pc = "idle"
    /\ Len(results) < MaxCalls
    /\ pc' = "stream"
    /\ iter' = DOMAIN disk.index
    /\ results' = results
    /\ UNCHANGED <<loadInputs, fRequestShutdown, treeVars, vSortedByHeight,
                   bestVars, walkVars, setBestChainCalls>>

\* an entry that reports an error over a tree that holds nodes
LoadBlockIndex_RejectsSecondCall ==
    /\ LoadFrame
    /\ pc = "idle"
    /\ Len(results) < MaxCalls
    /\ IF DOMAIN mapBlockIndex # {}
       THEN Return("AlreadyLoaded") /\ iter' = iter
       ELSE /\ pc' = "stream"
            /\ iter' = DOMAIN disk.index
            /\ results' = results
    /\ UNCHANGED <<loadInputs, fRequestShutdown, treeVars, vSortedByHeight,
                   bestVars, walkVars, setBestChainCalls>>

\* the entry: a tree that already holds a node ends the call at once
LoadBlockIndex ==
    /\ LoadFrame
    /\ pc = "idle"
    /\ Len(results) < MaxCalls
    /\ IF DOMAIN mapBlockIndex # {}
       THEN Return("ok") /\ iter' = iter
       ELSE /\ pc' = "stream"
            /\ iter' = DOMAIN disk.index
            /\ results' = results
    /\ UNCHANGED <<loadInputs, fRequestShutdown, treeVars, vSortedByHeight,
                   bestVars, walkVars, setBestChainCalls>>

\* one pass of the streaming loop
StreamRecord ==
    /\ LoadFrame
    /\ pc = "stream"
    /\ iter # {}
    /\ ~fRequestShutdown
    /\ LET diskindex == disk.index[IteratorKey(iter)]
           blockHash == diskindex.hash
           m1 == InsertBlockIndex(mapBlockIndex, blockHash)
           m2 == InsertBlockIndex(m1, diskindex.hashPrev)
           m3 == InsertBlockIndex(m2, diskindex.hashNext)
           pindexNew == [m3[blockHash] EXCEPT
                            !.pprev = diskindex.hashPrev,
                            !.pnext = diskindex.hashNext,
                            !.nFile = diskindex.nFile,
                            !.nBlockPos = diskindex.nBlockPos,
                            !.nHeight = diskindex.nHeight,
                            !.nFlags = diskindex.nFlags,
                            !.nBits = diskindex.nBits]
       IN  /\ mapBlockIndex' = [m3 EXCEPT ![blockHash] = pindexNew]
           /\ \E checkIndex \in BOOLEAN :
                  IF ~checkIndex
                  THEN Return("CheckIndex") /\ UNCHANGED <<setStakeSeen, iter>>
                  ELSE /\ setStakeSeen' = IF pindexNew.nFlags = 1
                                          THEN setStakeSeen \cup {blockHash}
                                          ELSE setStakeSeen
                       /\ iter' = iter \ {IteratorKey(iter)}
                       /\ UNCHANGED <<pc, results>>
    /\ UNCHANGED <<loadInputs, fRequestShutdown, vSortedByHeight, bestVars,
                   walkVars, setBestChainCalls>>

\* the streaming loop ends: shutdown returns true, else the nodes are sorted
StreamEnd ==
    /\ LoadFrame
    /\ pc = "stream"
    /\ iter = {} \/ fRequestShutdown
    /\ IF fRequestShutdown
       THEN Return("ok") /\ UNCHANGED vSortedByHeight
       ELSE /\ vSortedByHeight' = DOMAIN mapBlockIndex
            /\ pc' = "trust"
            /\ results' = results
    /\ UNCHANGED <<loadInputs, fRequestShutdown, iter, treeVars, bestVars,
                   walkVars, setBestChainCalls>>

\* one pass of the chain-trust loop
TrustStep ==
    /\ LoadFrame
    /\ pc = "trust"
    /\ \E h \in SortedNext(vSortedByHeight), checkpointOk \in BOOLEAN :
         LET node == mapBlockIndex[h]
             trust == (IF node.pprev # ZeroHash
                       THEN mapBlockIndex[node.pprev].nChainTrust ELSE 0)
                      + GetBlockTrust(node)
         IN  /\ mapBlockIndex' =
                    [mapBlockIndex EXCEPT
                        ![h] = [node EXCEPT
                                   !.nChainTrust = trust,
                                   !.nStakeModifierChecksum =
                                       GetStakeModifierChecksum(mapBlockIndex, node)]]
             /\ IF checkpointOk
                THEN /\ vSortedByHeight' = vSortedByHeight \ {h}
                     /\ UNCHANGED <<pc, results>>
                ELSE Return("CheckpointMismatch") /\ UNCHANGED vSortedByHeight
    /\ UNCHANGED <<loadInputs, fRequestShutdown, iter, setStakeSeen, bestVars,
                   walkVars, setBestChainCalls>>

\* -checkblocks taken as it is given, 0 included
ClampDepth_ZeroIsZero(depth, height) ==
    IF depth > height THEN height ELSE depth

\* -checkblocks as the walk uses it
ClampDepth(depth, height) ==
    LET d == IF depth = 0 THEN 1000000000 ELSE depth
    IN  IF d > height THEN height ELSE d

\* the assignments of a return from phase 3
TipReturn(r) ==
    /\ Return(r)
    /\ loadEvent' = [step |-> "tip", hasBestChain |-> disk.hasBestChain, result |-> r]
    /\ UNCHANGED walkLocals

\* a phase 3 that reads the sync checkpoint before it sets the three globals
ResolveTip_ChecksBeforeSetting ==
    /\ LoadFrame
    /\ pc = "trust"
    /\ vSortedByHeight = {}
    /\ IF ~disk.hasBestChain
       THEN /\ IF ~BlockIndexContains(IF fTestNet THEN hashGenesisBlock
                                      ELSE hashGenesisBlockTestNet)
               THEN TipReturn("ok")
               ELSE TipReturn("BestChainMissing")
            /\ UNCHANGED bestVars
       ELSE IF disk.hashBestChain \notin DOMAIN mapBlockIndex
       THEN TipReturn("BestChainNotFound") /\ UNCHANGED bestVars
       ELSE IF ~disk.hasSyncCheckpoint
       THEN TipReturn("SyncCheckpointMissing") /\ UNCHANGED bestVars
       ELSE LET best == mapBlockIndex[disk.hashBestChain]
            IN  /\ pindexBest' = disk.hashBestChain
                /\ nBestHeight' = best.nHeight
                /\ nBestChainTrust' = best.nChainTrust
                /\ tipSnapshot' = <<disk.hashBestChain, best.nHeight, best.nChainTrust>>
                /\ nCheckDepth' = ClampDepth(checkblocks, best.nHeight)
                /\ pindexFork' = ZeroHash
                /\ mapBlockPos' = EmptyMap
                /\ pindex' = disk.hashBestChain
                /\ flagged' = {}
                /\ visited' = <<>>
                /\ loadEvent' = NoLoadEvent
                /\ pc' = "walk"
                /\ UNCHANGED <<results, nTx, nOutput, nIn>>
    /\ UNCHANGED <<loadInputs, fRequestShutdown, iter, treeVars, vSortedByHeight,
                   setBestChainCalls>>

\* phase 3: the tip, the three globals, the sync checkpoint, the walk's locals
ResolveTip ==
    /\ LoadFrame
    /\ pc = "trust"
    /\ vSortedByHeight = {}
    /\ IF ~disk.hasBestChain
       THEN /\ IF ~BlockIndexContains(IF fTestNet THEN hashGenesisBlock
                                      ELSE hashGenesisBlockTestNet)
               THEN TipReturn("ok")
               ELSE TipReturn("BestChainMissing")
            /\ UNCHANGED bestVars
       ELSE IF disk.hashBestChain \notin DOMAIN mapBlockIndex
       THEN TipReturn("BestChainNotFound") /\ UNCHANGED bestVars
       ELSE LET best == mapBlockIndex[disk.hashBestChain]
            IN  /\ pindexBest' = disk.hashBestChain
                /\ nBestHeight' = best.nHeight
                /\ nBestChainTrust' = best.nChainTrust
                /\ tipSnapshot' = <<disk.hashBestChain, best.nHeight, best.nChainTrust>>
                /\ IF ~disk.hasSyncCheckpoint
                   THEN TipReturn("SyncCheckpointMissing")
                   ELSE /\ nCheckDepth' = ClampDepth(checkblocks, best.nHeight)
                        /\ pindexFork' = ZeroHash
                        /\ mapBlockPos' = EmptyMap
                        /\ pindex' = disk.hashBestChain
                        /\ flagged' = {}
                        /\ visited' = <<>>
                        /\ loadEvent' = NoLoadEvent
                        /\ pc' = "walk"
                        /\ UNCHANGED <<results, nTx, nOutput, nIn>>
    /\ UNCHANGED <<loadInputs, fRequestShutdown, iter, treeVars, vSortedByHeight,
                   setBestChainCalls>>

\* another thread asks for shutdown
RequestShutdown ==
    /\ LoadFrame
    /\ pc # "idle"
    /\ ~fRequestShutdown
    /\ fRequestShutdown' = TRUE
    /\ UNCHANGED <<loadInputs, pc, results, iter, treeVars, vSortedByHeight,
                   bestVars, walkVars, setBestChainCalls>>

TrustNext ==
    \/ LoadBlockIndex
    \/ StreamRecord
    \/ StreamEnd
    \/ TrustStep
    \/ ResolveTip

InitTrust == TrustInit /\ TxnIdle /\ SporkIdle

SpecTrust == InitTrust /\ [][TrustNext]_vars

----------------------------------------------------------------------------
\* CTxDB::LoadBlockIndex: the self-check walk and the rewind

\* CDiskTxPos::SetNull
NullPos == <<-1, 0>>

\* a position no block of the chain is stored at
StrayPos == <<1, 0>>

BlockPos(node) == <<node.nFile, node.nBlockPos>>

\* what txFound.ReadFromDisk(txindex.pos) and the hash comparison can give
TxReads == {"unreadable", "mismatch", "duplicate"}

\* what the level-6 checks of a spending transaction can give
SpendChecks == {"unreadable", "invalid", "notspending", "ok"}

\* only a hash mismatch flags
TxPosFlag_OnlyMismatch(read) == read = "mismatch"

\* lines 563 to 576: the read fails, or the transaction found has another hash
TxPosFlag(read) == read \in {"unreadable", "mismatch"}

\* the first fork recorded is kept
ForkAfterFlag_KeepFirst(fork, block) ==
    IF fork # ZeroHash THEN fork ELSE mapBlockIndex[block].pprev

\* pindexFork = pindex->pprev
ForkAfterFlag(fork, block) == mapBlockIndex[block].pprev

\* txindex.vSpent.size() - 1 < txin.prevout.n on unsigned operands: size 0
\* wraps to the largest unsigned value, which is below no n
SizeMinusOneLess(size, n) == IF size = 0 THEN FALSE ELSE size - 1 < n

\* the rewind is asked for although shutdown is requested
ShouldSetBestChain_IgnoreShutdown == pindexFork # ZeroHash

\* line 667
ShouldSetBestChain == pindexFork # ZeroHash /\ ~fRequestShutdown

\* the assignments a check makes when it flags, or does not flag, the block
Flag(hit) ==
    /\ pindexFork' = IF hit THEN ForkAfterFlag(pindexFork, pindex) ELSE pindexFork
    /\ flagged' = IF hit THEN flagged \cup {pindex} ELSE flagged

\* the loop header and the block-level checks of one pass
WalkBlock ==
    /\ LoadFrame
    /\ pc = "walk"
    /\ IF pindex = ZeroHash \/ mapBlockIndex[pindex].pprev = ZeroHash
          \/ fRequestShutdown
          \/ mapBlockIndex[pindex].nHeight < nBestHeight - nCheckDepth
       THEN /\ pc' = "fork"
            /\ UNCHANGED <<results, pindex, pindexFork, mapBlockPos, nTx,
                           flagged, visited, loadEvent>>
       ELSE \E readOk \in BOOLEAN, checkOk \in BOOLEAN, vtx \in 1..MaxTx :
              IF ~readOk
              THEN /\ Return("ReadFromDisk")
                   /\ loadEvent' = [step |-> "block", block |-> pindex,
                                    read |-> FALSE, checked |-> FALSE,
                                    checkSig |-> FALSE, hit |-> FALSE]
                   /\ UNCHANGED <<pindex, pindexFork, mapBlockPos, nTx,
                                  flagged, visited>>
              ELSE /\ (nCheckLevel > 0 \/ checkOk)
                   /\ (nCheckLevel > 1 \/ vtx = 1)
                   /\ Flag(nCheckLevel > 0 /\ ~checkOk)
                   /\ visited' = Append(visited, pindex)
                   /\ loadEvent' = [step |-> "block", block |-> pindex,
                                    read |-> TRUE, checked |-> nCheckLevel > 0,
                                    checkSig |-> nCheckLevel > 6,
                                    hit |-> nCheckLevel > 0 /\ ~checkOk]
                   /\ results' = results
                   /\ IF nCheckLevel > 1
                      THEN /\ mapBlockPos' = MapPut(mapBlockPos,
                                                    BlockPos(mapBlockIndex[pindex]),
                                                    pindex)
                           /\ nTx' = vtx
                           /\ pc' = "tx"
                           /\ pindex' = pindex
                      ELSE /\ pindex' = mapBlockIndex[pindex].pprev
                           /\ UNCHANGED <<pc, mapBlockPos, nTx>>
    /\ UNCHANGED <<loadInputs, fRequestShutdown, iter, treeVars, vSortedByHeight,
                   bestVars, nCheckDepth, nOutput, nIn, setBestChainCalls>>

\* lines 552 to 577 for the next transaction of the block
TxIndexStep ==
    /\ LoadFrame
    /\ pc = "tx"
    /\ \E hasIndex \in BOOLEAN, pos \in {BlockPos(mapBlockIndex[pindex]), StrayPos},
          read \in TxReads :
         LET differs == pos # BlockPos(mapBlockIndex[pindex])
             looked == hasIndex /\ (nCheckLevel > 2 \/ differs)
             hit == looked /\ TxPosFlag(read)
         IN  /\ (hasIndex \/ pos = StrayPos)
             /\ (looked \/ read = "duplicate")
             /\ Flag(hit)
             /\ loadEvent' = [step |-> "txindex", block |-> pindex,
                              hasIndex |-> hasIndex, differs |-> hasIndex /\ differs,
                              looked |-> looked, read |-> read, hit |-> hit]
             /\ pc' = IF hasIndex /\ nCheckLevel > 3 THEN "spent" ELSE "vin"
    /\ nOutput' = 0
    /\ nIn' = 0
    /\ UNCHANGED <<loadInputs, fRequestShutdown, results, iter, treeVars,
                   vSortedByHeight, bestVars, nCheckDepth, pindex, mapBlockPos,
                   nTx, visited, setBestChainCalls>>

\* lines 584 to 639 for the next entry of txindex.vSpent, if it has one more
SpentStep ==
    /\ LoadFrame
    /\ pc = "spent"
    /\ nOutput < MaxOut
    /\ \E txpos \in {NullPos, StrayPos, BlockPos(mapBlockIndex[pindexBest])},
          check \in SpendChecks :
         LET known == txpos \in DOMAIN mapBlockPos
             hit == txpos # NullPos
                    /\ (~known \/ (nCheckLevel > 5 /\ check # "ok"))
         IN  /\ ((txpos # NullPos /\ nCheckLevel > 5) \/ check = "ok")
             /\ Flag(hit)
             /\ loadEvent' = [step |-> "spent", block |-> pindex,
                              txpos |-> txpos, known |-> known,
                              check |-> check, hit |-> hit]
    /\ nOutput' = nOutput + 1
    /\ UNCHANGED <<loadInputs, fRequestShutdown, pc, results, iter, treeVars,
                   vSortedByHeight, bestVars, nCheckDepth, pindex, mapBlockPos,
                   nTx, nIn, visited, setBestChainCalls>>

\* txindex.vSpent has no more entries
SpentEnd ==
    /\ LoadFrame
    /\ pc = "spent"
    /\ pc' = "vin"
    /\ nOutput' = 0
    /\ UNCHANGED <<loadInputs, fRequestShutdown, results, iter, treeVars,
                   vSortedByHeight, bestVars, nCheckDepth, pindex, pindexFork,
                   mapBlockPos, nTx, nIn, flagged, visited, loadEvent,
                   setBestChainCalls>>

\* lines 646 to 661 for the next input of the transaction, if it has one
\* more; indexing vSpent past its end is undefined, the entry read there may
\* look null or not
VinStep ==
    /\ LoadFrame
    /\ pc = "vin"
    /\ nCheckLevel > 4
    /\ nIn < MaxIn
    /\ \E hasIndex \in BOOLEAN, size \in 0..MaxOut, n \in 0..MaxOut,
          entryNull \in BOOLEAN :
         LET short == SizeMinusOneLess(size, n)
             indexed == hasIndex /\ ~short
             hit == hasIndex /\ (short \/ entryNull)
         IN  /\ (hasIndex \/ (size = 0 /\ n = 0))
             /\ (indexed \/ ~entryNull)
             /\ Flag(hit)
             /\ loadEvent' = [step |-> "vin", block |-> pindex,
                              hasIndex |-> hasIndex, size |-> size, n |-> n,
                              indexed |-> indexed, hit |-> hit]
    /\ nIn' = nIn + 1
    /\ UNCHANGED <<loadInputs, fRequestShutdown, pc, results, iter, treeVars,
                   vSortedByHeight, bestVars, nCheckDepth, pindex, mapBlockPos,
                   nTx, nOutput, visited, setBestChainCalls>>

\* the transaction is done: the next one, or the next block down
TxEnd ==
    /\ LoadFrame
    /\ pc = "vin"
    /\ nTx' = nTx - 1
    /\ nIn' = 0
    /\ IF nTx > 1
       THEN pc' = "tx" /\ pindex' = pindex
       ELSE pc' = "walk" /\ pindex' = mapBlockIndex[pindex].pprev
    /\ UNCHANGED <<loadInputs, fRequestShutdown, results, iter, treeVars,
                   vSortedByHeight, bestVars, nCheckDepth, pindexFork,
                   mapBlockPos, nOutput, flagged, visited, loadEvent,
                   setBestChainCalls>>

\* lines 667 to 682; SetBestChain belongs to the consensus code, the call is
\* recorded
ForkStep ==
    /\ LoadFrame
    /\ pc = "fork"
    /\ \E readOk \in BOOLEAN :
         LET wanted == ShouldSetBestChain
             r == IF wanted /\ ~readOk THEN "ReadFromDisk" ELSE "ok"
         IN  /\ (wanted \/ readOk)
             /\ setBestChainCalls' = IF wanted /\ readOk
                                     THEN Append(setBestChainCalls, pindexFork)
                                     ELSE setBestChainCalls
             /\ loadEvent' = [step |-> "fork", fork |-> pindexFork,
                              shutdown |-> fRequestShutdown,
                              read |-> IF wanted THEN readOk ELSE FALSE,
                              called |-> wanted /\ readOk, result |-> r]
             /\ Return(r)
    /\ UNCHANGED <<loadInputs, fRequestShutdown, iter, treeVars, vSortedByHeight,
                   bestVars, nCheckDepth, pindex, pindexFork, mapBlockPos, nTx,
                   nOutput, nIn, flagged, visited>>

LoadNext ==
    \/ LoadBlockIndex
    \/ StreamRecord
    \/ StreamEnd
    \/ TrustStep
    \/ ResolveTip
    \/ WalkBlock
    \/ TxIndexStep
    \/ SpentStep
    \/ SpentEnd
    \/ VinStep
    \/ TxEnd
    \/ ForkStep
    \/ RequestShutdown

InitLoad == LoadInit /\ TxnIdle /\ SporkIdle

SpecLoad == InitLoad /\ [][LoadNext]_vars

\* the thread that runs the load keeps running: a step of the load that can
\* be taken is taken; the caller's entry and the shutdown request are free
LoadSteps ==
    \/ StreamRecord
    \/ StreamEnd
    \/ TrustStep
    \/ ResolveTip
    \/ WalkBlock
    \/ TxIndexStep
    \/ SpentStep
    \/ SpentEnd
    \/ VinStep
    \/ TxEnd
    \/ ForkStep

\* main-net stores that take the load as far as the walk
WalkStores ==
    {s \in ChainStores : /\ s.hasBestChain
                         /\ s.hasSyncCheckpoint
                         /\ hashGenesisBlockTestNet \notin DOMAIN s.index}

WalkInit == LoadInitWith(WalkStores, {FALSE}, CheckLevels, CheckDepths)

InitWalk == WalkInit /\ TxnIdle /\ SporkIdle

SpecWalkFair == InitWalk /\ [][LoadNext]_vars /\ WF_vars(LoadSteps)


InitSpork == SporkInit /\ TxnIdle /\ LoadIdle

SpecSpork == InitSpork /\ [][SporkNext]_vars

InitSporkWide == WideSporkInit /\ TxnIdle /\ LoadIdle

SpecSporkWide == InitSporkWide /\ [][WideSporkNext]_vars

InitTxn == TxnInit /\ SporkIdle /\ LoadIdle

SpecTxn == InitTxn /\ [][TxnNext]_vars

----------------------------------------------------------------------------
\* Properties of the spork manager (SpecSpork)

StrictlyIncreasing(seq) == \A i \in 1..(Len(seq) - 1) : seq[i] < seq[i + 1]

IngressKinds == {"ibd", "duplicate", "stale", "badsig", "accept"}

\* C1: for every spork id the time_signed values of the accepted messages are
\* strictly increasing, and a message whose time_signed equals that of the
\* active entry of its id is not accepted and leaves the active entry as it was.
C1_AcceptedTimesStrictlyIncrease ==
    /\ \A id \in SporkIds : StrictlyIncreasing(sporkAccepted[id])
    /\ (/\ sporkEvent.kind \in IngressKinds
        /\ sporkEvent.before.had
        /\ sporkEvent.msg.nTimeSigned = sporkEvent.before.nTimeSigned)
       => /\ sporkEvent.kind # "accept"
          /\ mapSporksActive[sporkEvent.msg.nSporkID].nValue = sporkEvent.before.nValue
          /\ mapSporksActive[sporkEvent.msg.nSporkID].nTimeSigned
                 = sporkEvent.before.nTimeSigned

\* a validly signed message with the active entry's time and another value was
\* dropped as stale, after two messages of that id had been accepted
C1_Witness ==
    /\ sporkEvent.kind = "stale"
    /\ sporkEvent.msg.sigOk
    /\ sporkEvent.msg.nTimeSigned = sporkEvent.before.nTimeSigned
    /\ sporkEvent.msg.nValue # sporkEvent.before.nValue
    /\ Len(sporkAccepted[sporkEvent.msg.nSporkID]) = 2

\* C2: for every id of mapSporksActive, the hash of the stored message is a
\* key of mapSporks, and mapSporks maps that hash to the same message.
C2_ActiveHashedInMapSporks ==
    \A id \in DOMAIN mapSporksActive :
        LET st == mapSporksActive[id]
            h == GetHash(Members(st), st.pad)
        IN  /\ h \in DOMAIN mapSporks
            /\ mapSporks[h] = Members(st)

----------------------------------------------------------------------------
\* Properties of the batched transaction layer (SpecTxn)

\* index of the last operation of log that names key k, 0 when none does
LastOpOn(log, k) ==
    LET idx == {i \in 1..Len(log) : log[i].key = k}
    IN  IF idx = {} THEN 0 ELSE CHOOSE i \in idx : \A j \in idx : j <= i

\* C3: while a txn is open, a read of k returns the value of the last pending
\* put of k when the last pending operation on k is a put, reports k absent
\* when it is a delete, and returns the store's value when no pending
\* operation names k.
C3_ReadYourWrites ==
    (dbEvent.op = "read" /\ activeBatch) =>
        LET k == dbEvent.key
            i == LastOpOn(batchLog, k)
            r == dbEvent.res
        IN  IF i = 0
            THEN r.from = "store" /\ r.value = kv[k] /\ r.found = (kv[k] # NoValue)
            ELSE IF batchLog[i].op = "put"
            THEN r.from = "batch" /\ r.found /\ r.value = batchLog[i].value
            ELSE r.from = "batch" /\ ~r.found

\* a read found the second of two different pending puts of a key, with a
\* delete of the key between them and a store that holds the first value
C3_Witness ==
    /\ dbEvent.op = "read"
    /\ activeBatch
    /\ batchLog = <<BatchPut(dbEvent.key, "v1"), BatchDelete(dbEvent.key),
                    BatchPut(dbEvent.key, "v2")>>
    /\ kv[dbEvent.key] = "v1"
    /\ dbEvent.res.found
    /\ dbEvent.res.value = "v2"

\* the store a committed log must leave, key by key
ExpectedAfter(pre, log) ==
    [k \in Keys |->
        LET i == LastOpOn(log, k)
        IN  IF i = 0 THEN pre[k]
            ELSE IF log[i].op = "put" THEN log[i].value ELSE NoValue]

\* C4: the pending operations reach the store all together or not at all: the
\* store is the pre-txn store while the txn is open and after an abort, a
\* close or a failed commit, and the pre-txn store with the whole log applied
\* in order after a successful commit.
C4_CommitAllOrNothing ==
    /\ activeBatch => kv = preStore
    /\ dbEvent.op = "commit" =>
           kv = IF dbEvent.ok THEN ExpectedAfter(dbEvent.pre, dbEvent.log)
                ELSE dbEvent.pre
    /\ dbEvent.op = "abort" => kv = dbEvent.pre
    /\ (dbEvent.op = "close" /\ dbEvent.hadBatch) => kv = dbEvent.pre

\* a commit succeeded with three pending operations, among them a put that a
\* later delete of the same key overrides, and changed the store
C4_Witness ==
    /\ dbEvent.op = "commit"
    /\ dbEvent.ok
    /\ Len(dbEvent.log) = 3
    /\ \E i, j \in 1..3 :
           /\ i < j
           /\ dbEvent.log[i].key = dbEvent.log[j].key
           /\ dbEvent.log[i].op = "put"
           /\ dbEvent.log[j].op = "del"
    /\ kv # dbEvent.pre

----------------------------------------------------------------------------
\* The block-index loader

\* phase 2 has run over every node without an error
TrustDone == pc = "trust" /\ vSortedByHeight = {}

ParentTrust(h) ==
    IF mapBlockIndex[h].pprev # ZeroHash
    THEN mapBlockIndex[mapBlockIndex[h].pprev].nChainTrust
    ELSE 0

LocalTrust(h) ==
    mapBlockIndex[h].nChainTrust = ParentTrust(h) + GetBlockTrust(mapBlockIndex[h])

\* the sum of the block trusts from h along the parents to the root
RECURSIVE TrustAlong(_, _)
TrustAlong(h, fuel) ==
    IF h = ZeroHash \/ fuel = 0 THEN 0
    ELSE GetBlockTrust(mapBlockIndex[h])
         + TrustAlong(mapBlockIndex[h].pprev, fuel - 1)

\* every node with a parent stands higher than its parent node
HeightsIncrease ==
    \A h \in DOMAIN mapBlockIndex :
        mapBlockIndex[h].pprev # ZeroHash =>
            mapBlockIndex[h].nHeight > mapBlockIndex[mapBlockIndex[h].pprev].nHeight

\* C5 as stated: after phase 2 every node's chain trust is its parent's chain
\* trust (0 without a parent) plus its own block trust, whatever the stored
\* heights and parents are.
C5_ChainTrustForEveryRecordSet ==
    TrustDone => \A h \in DOMAIN mapBlockIndex : LocalTrust(h)

\* C5, amended: after phase 2 every node's chain trust is its parent's chain
\* trust (0 without a parent) plus its own block trust, and so the sum of the
\* block trusts along its parents, when every node with a parent has a height
\* above its parent's; a parent without a record is a node of height 0.
C5_ChainTrustWhenHeightsIncrease ==
    (TrustDone /\ HeightsIncrease) =>
        \A h \in DOMAIN mapBlockIndex :
            /\ LocalTrust(h)
            /\ mapBlockIndex[h].nChainTrust =
                   TrustAlong(h, Cardinality(DOMAIN mapBlockIndex))

C5_Witness ==
    /\ TrustDone
    /\ HeightsIncrease
    /\ \E h \in DOMAIN mapBlockIndex :
          /\ mapBlockIndex[h].pprev \in DOMAIN disk.index
          /\ ParentTrust(h) > 0
          /\ mapBlockIndex[h].nChainTrust > ParentTrust(h)

\* C7: with hashBestChain absent the load fails with BestChainMissing when the
\* store holds a block-index record, on either network, and succeeds when it
\* holds none.
C7_BestChainMissingWhenBlocksStored ==
    (loadEvent.step = "tip" /\ ~loadEvent.hasBestChain) =>
        loadEvent.result = IF DOMAIN disk.index # {} THEN "BestChainMissing"
                           ELSE "ok"

\* C8 as stated: a TxIndex position that differs from the block's position
\* sets the fork pointer to the block's parent, whatever is read at the stored
\* position.
C8_PosMismatchAlwaysFlags ==
    (loadEvent.step = "txindex" /\ loadEvent.differs) =>
        pindexFork = mapBlockIndex[loadEvent.block].pprev

\* C8, amended: a TxIndex position that differs from the block's position
\* makes the loader read the transaction at the stored position; the fork
\* pointer is set to the block's parent when that read fails or gives a
\* transaction with another hash, and this check does not flag the block when
\* the transaction read there has the same hash.
C8_PosMismatchFlagsUnlessDuplicate ==
    (loadEvent.step = "txindex" /\ loadEvent.differs) =>
        /\ nCheckLevel >= 2
        /\ loadEvent.looked
        /\ loadEvent.read \in {"unreadable", "mismatch"} =>
              /\ loadEvent.hit
              /\ pindexFork = mapBlockIndex[loadEvent.block].pprev
              /\ loadEvent.block \in flagged
        /\ loadEvent.read = "duplicate" => ~loadEvent.hit

C8_Witness ==
    /\ loadEvent.step = "txindex"
    /\ loadEvent.differs
    /\ loadEvent.read = "unreadable"
    /\ nCheckLevel = 2
    /\ pindexFork = mapBlockIndex[loadEvent.block].pprev

\* the walk has left its loop and shutdown is not requested
WalkEnded == pc = "fork" /\ ~fRequestShutdown

LowestFlagged ==
    CHOOSE b \in flagged :
        \A c \in flagged : mapBlockIndex[b].nHeight <= mapBlockIndex[c].nHeight

\* C9: when the walk ends without shutdown the fork pointer is null if no
\* visited block was flagged, and else the parent of the flagged block of the
\* lowest height.
C9_ForkIsParentOfLowestFlagged ==
    WalkEnded =>
        /\ flagged \subseteq {visited[i] : i \in 1..Len(visited)}
        /\ IF flagged = {} THEN pindexFork = ZeroHash
           ELSE pindexFork = mapBlockIndex[LowestFlagged].pprev

C9_Witness ==
    /\ WalkEnded
    /\ Cardinality(flagged) >= 2
    /\ pindexFork = mapBlockIndex[LowestFlagged].pprev

C11_NoBlockWorkAtLevelZero ==
    /\ nCheckLevel = 0 =>
          /\ loadEvent.step # "block"
          /\ visited = <<>>
          /\ pindexFork = ZeroHash
          /\ setBestChainCalls = <<>>
          /\ \A i \in 1..Len(results) : results[i] # "ReadFromDisk"
    /\ (loadEvent.step = "block" /\ loadEvent.checked) =>
          (loadEvent.checkSig <=> nCheckLevel >= 7)

----------------------------------------------------------------------------
\* The store's version and the handle's transaction

\* C12: an open that finds a "version" other than DATABASE_VERSION, lower or
\* higher, leaves an empty store that records DATABASE_VERSION and no block
\* files; an open that finds DATABASE_VERSION changes nothing.
C12_VersionMismatchWipes ==
    dbEvent.op = "open" =>
        /\ dbEvent.version \in {"old", "new"} =>
              /\ dbEvent.ok
              /\ pdb
              /\ dbExists
              /\ diskVersion = "cur"
              /\ kv = EmptyStore
              /\ blockFiles = {}
        /\ dbEvent.version = "cur" =>
              /\ dbEvent.ok
              /\ diskVersion = "cur"
              /\ kv = dbEvent.pre
              /\ blockFiles = dbEvent.files

----------------------------------------------------------------------------
\* The loader: shutdown, repeated calls, the walk's range

\* C13: once shutdown is requested during a load, the streaming and the
\* chain-trust loops end at their next pass, every return of the load is a
\* success, and no rewind is asked for.
C13_ShutdownEndsLoadWithSuccess ==
    [][fRequestShutdown =>
          /\ pc \in {"stream", "trust"} => pc' = "idle"
          /\ Len(results') > Len(results) => results'[Len(results')] = "ok"
          /\ setBestChainCalls' = setBestChainCalls]_vars

\* C14: a handle has at most one open transaction.  TxnBegin with one open is
\* fatal and leaves the pending batch as it was; TxnCommit and ScanBatch with
\* none open are fatal; a begin that succeeds starts from an empty batch; after
\* a commit, successful or not, and after Close no transaction is open.
C14_AtMostOneOpenTxn ==
    [][/\ dbEvent'.op = "begin" =>
             (~activeBatch /\ activeBatch' /\ batchLog' = <<>>)
       /\ dbEvent'.op = "assert" =>
             /\ aborted'
             /\ UNCHANGED <<activeBatch, batchLog, kv>>
             /\ activeBatch <=> dbEvent'.in = "TxnBegin"
       /\ dbEvent'.op \in {"commit", "scan"} => activeBatch
       /\ dbEvent'.op \in {"commit", "close"} =>
             (~activeBatch' /\ batchLog' = <<>>)]_vars

C14_Witness ==
    /\ dbEvent.op = "assert"
    /\ dbEvent.in = "TxnBegin"
    /\ aborted
    /\ activeBatch
    /\ batchLog # <<>>

\* C15: a commit whose batch write fails returns false and leaves the store as
\* it was before the txn, no txn open, the batch empty and the handle alive;
\* a read that follows sees the store alone, and a TxnBegin that follows
\* succeeds and starts from an empty batch.
C15_FailedCommitDiscardsLog ==
    /\ []((dbEvent.op = "commit" /\ ~dbEvent.ok) =>
            /\ kv = dbEvent.pre
            /\ ~activeBatch
            /\ batchLog = <<>>
            /\ pdb
            /\ ~aborted)
    /\ [][(dbEvent.op = "commit" /\ ~dbEvent.ok) =>
            /\ dbEvent'.op = "read" =>
                  /\ dbEvent'.res.from = "store"
                  /\ dbEvent'.res.value = dbEvent.pre[dbEvent'.key]
            /\ ~(dbEvent'.op = "assert" /\ dbEvent'.in = "TxnBegin")
            /\ dbEvent'.op = "begin" =>
                  /\ activeBatch'
                  /\ batchLog' = <<>>
                  /\ kv' = dbEvent.pre]_vars

C15_Witness ==
    /\ dbEvent.op = "commit"
    /\ ~dbEvent.ok
    /\ Len(dbEvent.log) >= 2
    /\ ApplyBatch(dbEvent.pre, dbEvent.log) # dbEvent.pre
    /\ kv = dbEvent.pre
    /\ ENABLED TxnBegin

\* C16: LoadBlockIndex entered with a tree that holds a node returns success
\* in that step and changes nothing else: the tree, the stake-seen set, the
\* three best globals, the store, the walk's state and the list of rewinds.
C16_SecondLoadReturnsAtOnce ==
    /\ [][(pc = "idle" /\ DOMAIN mapBlockIndex # {}) => pc' = pc]_vars
    /\ [][(pc = "idle" /\ DOMAIN mapBlockIndex # {} /\ results' # results) =>
            /\ results' = Append(results, "ok")
            /\ pc' = "idle"
            /\ UNCHANGED <<treeVars, bestVars, loadInputs, iter, vSortedByHeight,
                           walkVars, setBestChainCalls, txnVars>>]_vars

C16_Witness ==
    /\ pc = "idle"
    /\ DOMAIN mapBlockIndex # {}
    /\ Len(results) = 2
    /\ results[1] = "CheckIndex"
    /\ results[2] = "ok"
    /\ pindexBest = ZeroHash

----------------------------------------------------------------------------
\* The spork manager: silent drops

\* the message being handled meets an active entry at least as new, or its
\* hash is a key of mapSporks whatever its padding holds
StaleOrKnown(m) ==
    \/ /\ m.nSporkID \in DOMAIN mapSporksActive
       /\ mapSporksActive[m.nSporkID].nTimeSigned >= m.nTimeSigned
    \/ \A pad \in Pads : GetHash(m, pad) \in DOMAIN mapSporks

\* C17: a message dropped as stale or as a duplicate leaves both maps as they
\* were, is not relayed, not executed, and costs the peer nothing; a message
\* that is stale or known is never answered with the bad-signature penalty,
\* whatever its signature.
C17_StaleAndDuplicateDropSilently ==
    [][/\ sporkEvent'.kind \in {"stale", "duplicate"} =>
             /\ UNCHANGED <<mapSporks, mapSporksActive>>
             /\ sporkEvent'.weight = 0
             /\ ~sporkEvent'.relayed
             /\ ~sporkEvent'.executed
       /\ sporkEvent'.kind \in {"badsig", "accept"} =>
             ~StaleOrKnown(sporkEvent'.msg)]_vars

C17_Witness ==
    /\ sporkEvent.kind = "duplicate"
    /\ ~sporkEvent.msg.sigOk
    /\ sporkEvent.weight = 0
    /\ \E h \in DOMAIN mapSporks :
          /\ mapSporks[h].sigOk
          /\ mapSporks[h].nSporkID = sporkEvent.msg.nSporkID
          /\ mapSporks[h].nTimeSigned = sporkEvent.msg.nTimeSigned

----------------------------------------------------------------------------
\* The loader: the range of the walk

\* the depth the walk works with, from -checkblocks and the tip's height
ExpectedDepth ==
    IF checkblocks = 0 \/ checkblocks > nBestHeight THEN nBestHeight
    ELSE checkblocks

\* the lowest height a block with a parent can have within the depth
LowestWalked ==
    IF nBestHeight - ExpectedDepth < 1 THEN 1 ELSE nBestHeight - ExpectedDepth

VisitedHeights == [i \in 1..Len(visited) |-> mapBlockIndex[visited[i]].nHeight]

----------------------------------------------------------------------------
\* The loader: the order of phase 2

\* the node phase 2 would take next if equal heights were ordered by hash
HashOrderedNext(map, todo) ==
    CHOOSE h \in todo :
        \A g \in todo :
            \/ map[h].nHeight < map[g].nHeight
            \/ (map[h].nHeight = map[g].nHeight /\ h <= g)

\* phase 2 run over the nodes of todo in the order (height, hash)
RECURSIVE HashOrderedTrust(_, _)
HashOrderedTrust(map, todo) ==
    IF todo = {} THEN map
    ELSE LET h == HashOrderedNext(map, todo)
             node == map[h]
             trust == (IF node.pprev # ZeroHash THEN map[node.pprev].nChainTrust
                       ELSE 0) + GetBlockTrust(node)
         IN  HashOrderedTrust(
                 [map EXCEPT ![h] = [node EXCEPT
                     !.nChainTrust = trust,
                     !.nStakeModifierChecksum = GetStakeModifierChecksum(map, node)]],
                 todo \ {h})

\* the tree as the streaming loop left it
StreamedTree ==
    [h \in DOMAIN mapBlockIndex |->
        [mapBlockIndex[h] EXCEPT !.nChainTrust = 0, !.nStakeModifierChecksum = 0]]

\* C19: phase 2 gives every node the chain trust and the stake-modifier
\* checksum that the order (height, block hash) gives, whichever order the
\* run took among the nodes of equal height.
C19_Phase2IndependentOfTieOrder ==
    TrustDone =>
        mapBlockIndex = HashOrderedTrust(StreamedTree, DOMAIN mapBlockIndex)

\* C20: at level 5 and above, for every input whose prevout index record
\* exists, the block is flagged whenever n is not an index of vSpent or the
\* entry at n is null, for every length of vSpent, and vSpent is only ever
\* indexed inside its range.
C20_PrevoutCheckStaysInRange ==
    (loadEvent.step = "vin" /\ loadEvent.hasIndex) =>
        /\ loadEvent.indexed => loadEvent.n < loadEvent.size
        /\ loadEvent.n >= loadEvent.size => loadEvent.hit
        /\ loadEvent.hit =>
              /\ loadEvent.block \in flagged
              /\ pindexFork = mapBlockIndex[loadEvent.block].pprev

----------------------------------------------------------------------------
\* The loader: a second call after a failed one

\* both calls of the session have returned and the first returned an error
RetriedAfterFailure == Len(results) = 2 /\ results[1] # "ok"

\* C21: when a load returned an error and the load is called again in the
\* same session on the same store, the second call does not return success.
C21_RetryRepeatsFailure ==
    RetriedAfterFailure => results[2] # "ok"

\* C21, amended: the second call returns success at once whenever the failed
\* call left a node in the tree; it repeats the error only when the tree is
\* still empty and no shutdown was requested.
C21_RetryMasksFailureWhenTreeHoldsNodes ==
    RetriedAfterFailure =>
        /\ DOMAIN mapBlockIndex # {} => results[2] = "ok"
        /\ (DOMAIN mapBlockIndex = {} /\ ~fRequestShutdown) =>
               results[2] = results[1]

C21_Witness ==
    /\ RetriedAfterFailure
    /\ DOMAIN mapBlockIndex # {}
    /\ results[1] = "CheckIndex"
    /\ results[2] = "ok"

----------------------------------------------------------------------------
\* The loader: the tree the streaming loop builds

\* the streaming loop has met every record and phase 2 has not begun
StreamEnded == pc = "trust" /\ vSortedByHeight = DOMAIN mapBlockIndex

\* the node lines 412 to 429 make of a record
FromRecord(diskindex) ==
    [NewBlockIndex EXCEPT !.pprev = diskindex.hashPrev,
                          !.pnext = diskindex.hashNext,
                          !.nFile = diskindex.nFile,
                          !.nBlockPos = diskindex.nBlockPos,
                          !.nHeight = diskindex.nHeight,
                          !.nFlags = diskindex.nFlags,
                          !.nBits = diskindex.nBits]

\* the hashes the records name as their previous or next block
ReferencedHashes ==
    {disk.index[h].hashPrev : h \in DOMAIN disk.index}
        \cup {disk.index[h].hashNext : h \in DOMAIN disk.index}

\* C22: after the streaming loop the tree holds one node per stored block
\* hash, every node is populated from the record with its hash, no placeholder
\* is left unpopulated, and the zero hash has no node.
C22_EveryNodePopulated ==
    StreamEnded =>
        /\ DOMAIN mapBlockIndex = DOMAIN disk.index
        /\ \A h \in DOMAIN mapBlockIndex :
               mapBlockIndex[h] = FromRecord(disk.index[h])
        /\ ZeroHash \notin DOMAIN mapBlockIndex

\* C22, amended: the tree holds one node per hash that a record has or names
\* as its previous or next block; a node whose hash has a record is populated
\* from it, a node whose hash is only named stays as it was created, and the
\* zero hash has no node.
C22_PlaceholdersStayForMissingRecords ==
    StreamEnded =>
        /\ DOMAIN mapBlockIndex =
               (DOMAIN disk.index \cup ReferencedHashes) \ {ZeroHash}
        /\ \A h \in DOMAIN mapBlockIndex :
               mapBlockIndex[h] = IF h \in DOMAIN disk.index
                                  THEN FromRecord(disk.index[h])
                                  ELSE NewBlockIndex
        /\ ZeroHash \notin DOMAIN mapBlockIndex

C22_Witness ==
    /\ StreamEnded
    /\ \E h \in DOMAIN mapBlockIndex :
          /\ h \in DOMAIN disk.index
          /\ mapBlockIndex[h].pprev \in DOMAIN mapBlockIndex \ DOMAIN disk.index
    /\ \E h \in DOMAIN mapBlockIndex : mapBlockIndex[h].pprev = ZeroHash
                                        /\ h \in DOMAIN disk.index

----------------------------------------------------------------------------
\* The loader: the three globals and the errors of phase 3

BestGlobals == <<pindexBest, nBestHeight, nBestChainTrust>>

\* this step is phase 3 returning r
TipReturns(r) ==
    /\ pc = "trust" /\ vSortedByHeight = {}
    /\ pc' = "idle"
    /\ results' = Append(results, r)

\* C23: a load that returns an error in phase 3, because hashBestChain names
\* a hash the tree does not hold or because hashSyncCheckpoint is absent,
\* leaves best, best_height and best_chain_trust as they were before the call.
C23_TipErrorsKeepGlobals ==
    [][(TipReturns("BestChainNotFound") \/ TipReturns("SyncCheckpointMissing"))
          => UNCHANGED BestGlobals]_vars

\* C23, amended: an unknown hashBestChain leaves the three globals as they
\* were; an absent hashSyncCheckpoint is found after the three globals were
\* set, and the load returns its error with the globals naming the stored tip.
C23_GlobalsSetBeforeSyncCheckpoint ==
    [][/\ TipReturns("BestChainNotFound") => UNCHANGED BestGlobals
       /\ TipReturns("BestChainMissing") => UNCHANGED BestGlobals
       /\ TipReturns("SyncCheckpointMissing") =>
             /\ pindexBest' = disk.hashBestChain
             /\ nBestHeight' = mapBlockIndex[disk.hashBestChain].nHeight
             /\ nBestChainTrust' = mapBlockIndex[disk.hashBestChain].nChainTrust]_vars

C23_Witness ==
    /\ loadEvent.step = "tip"
    /\ loadEvent.result = "SyncCheckpointMissing"
    /\ results = <<"SyncCheckpointMissing">>
    /\ pindexBest = disk.hashBestChain
    /\ nBestHeight > 0
    /\ nBestChainTrust > 0

----------------------------------------------------------------------------
\* Spork manager: the value handed to ExecuteSpork

\* C24: on acceptance ExecuteSpork is called with the message's id and its
\* 64-bit value: for every accepted value, the values above 2^31 - 1
\* included, the value ExecuteSpork receives equals the message's value and
\* equals GetSporkValue of the id afterwards.
C24_ExecuteSporkGetsFullValue ==
    sporkEvent.kind = "accept" =>
        LET m == sporkEvent.msg
        IN  /\ sporkEvent.executed
            /\ sporkEvent.execId = m.nSporkID
            /\ ToInt64(sporkEvent.execValue) = [high |-> m.nValueHigh, low |-> m.nValue]
            /\ GetSporkValue(m.nSporkID) = m.nValue
            /\ GetSporkValueHigh(m.nSporkID) = m.nValueHigh

----------------------------------------------------------------------------
\* Spork manager: the verification keys

PubKeys == <<strMainPubKey, strTestPubKey>>

====
